---- MODULE Spec2Model ----
(***************************************************************************)
(* Model of qiskit/providers/ibmq/credentials/environ.py: the loader that  *)
(* reads the QE_* environment variables and returns                        *)
(* {credentials_unique_id: Credentials}.                                   *)
(*                                                                         *)
(* The process environment (os.environ) is a dictionary from variable      *)
(* names to strings; it is modelled as a function whose DOMAIN is the set  *)
(* of variables that are set.  The loader is one synchronous call.  The    *)
(* environment is changed only from outside the loader (os.environ[k] = v, *)
(* del os.environ[k]).                                                     *)
(***************************************************************************)
EXTENDS Integers, Sequences, FiniteSets, TLC

\* ---------------------------------------------------------------- bounds
\* Number of environment changes explored in one behaviour.
MaxChanges == 3
\* Number of loader invocations explored in one behaviour.
MaxCalls == 2

\* ------------------------------------------------------------ vocabulary
\* Python's None: the result of os.getenv on an unset variable and the
\* default of an optional Credentials argument.  Not a member of Values.
None == "None"

\* Values the variables that are set hold when the process starts.
StartValues == {"a"}

\* Values written into the environment afterwards ("" is the empty string,
\* which os.getenv returns as a falsy value).
Values == {"", "b"}

\* VARIABLES_MAP with one more entry: QE_FOO is read into the hub field.
VARIABLES_MAP_WithFoo ==
    << <<"QE_TOKEN", "token">>,
       <<"QE_URL", "url">>,
       <<"QE_WEBSOCKET_URL", "websocket_url">>,
       <<"QE_HUB", "hub">>,
       <<"QE_GROUP", "group">>,
       <<"QE_PROJECT", "project">>,
       <<"QE_FOO", "hub">> >>

\* environ.py:23-30, in the dictionary's (insertion) order.
VARIABLES_MAP ==
    << <<"QE_TOKEN", "token">>,
       <<"QE_URL", "url">>,
       <<"QE_WEBSOCKET_URL", "websocket_url">>,
       <<"QE_HUB", "hub">>,
       <<"QE_GROUP", "group">>,
       <<"QE_PROJECT", "project">> >>

\* The keys of VARIABLES_MAP.
Recognized ==
    {"QE_TOKEN", "QE_URL", "QE_WEBSOCKET_URL", "QE_HUB", "QE_GROUP", "QE_PROJECT"}

\* Variables of the process environment that the loader does not name.
Unrecognized == {"QE_FOO"}

EnvNames == Recognized \cup Unrecognized

\* The values of VARIABLES_MAP: the parameters of Credentials.
Fields == {"token", "url", "websocket_url", "hub", "group", "project"}

OptionalFields == Fields \ {"token", "url"}

\* An empty dict / OrderedDict().
EmptyDict == [k \in {} |-> None]

VARIABLES
    environ,       \* os.environ
    result,        \* mapping returned by the latest invocation
    credentials,   \* the keyword dictionary built by the latest invocation (lines 46-49)
    raised,        \* exception raised by the latest invocation, or None
    lastEnviron,   \* os.environ as the latest invocation found it
    prevResult,    \* mapping returned by the invocation before the latest
    prevEnviron,   \* os.environ as the invocation before the latest found it
    touched,       \* TRUE iff os.environ was written since the latest invocation
    nCalls,        \* invocations so far
    nChanges       \* environment changes so far

vars == <<environ, result, credentials, raised, lastEnviron, prevResult,
          prevEnviron, touched, nCalls, nChanges>>

\* ------------------------------------------------------------- os module
\* os.getenv(name): the value, or None when the variable is not set.
getenv(env, name) == IF name \in DOMAIN env THEN env[name] ELSE None

\* Python truthiness of an os.getenv result: None and '' are falsy.
Truthy(v) == v # None /\ v # ""

\* os.environ[name] = value
EnvSet(env, name, value) ==
    [n \in DOMAIN env \cup {name} |-> IF n = name THEN value ELSE env[n]]

\* del os.environ[name]
EnvDel(env, name) == [n \in DOMAIN env \ {name} |-> env[n]]

\* -------------------------------------------------- credentials.Credentials
\* Credentials(**kwargs): token and url are required arguments; the
\* optional ones default to None.
CredentialsOk(kwargs) == {"token", "url"} \subseteq DOMAIN kwargs

Credentials(kwargs) ==
    [f \in Fields |-> IF f \in DOMAIN kwargs THEN kwargs[f] ELSE None]

\* Credentials.unique_id(): the hub/group/project triple
\* (<<None, None, None>> is the default identifier).
unique_id(c) == <<c["hub"], c["group"], c["project"]>>

\* ------------------------------------------------------------ the loader
\* The guard as the comment above it describes it: only the token is required.
HasRequired_TokenOnly(env) == Truthy(getenv(env, "QE_TOKEN"))

\* The guard asking for a hub as well.
HasRequired_WithHub(env) ==
    /\ Truthy(getenv(env, "QE_TOKEN"))
    /\ Truthy(getenv(env, "QE_URL"))
    /\ Truthy(getenv(env, "QE_HUB"))

\* environ.py:42  the guard of the early return.
HasRequired(env) == Truthy(getenv(env, "QE_TOKEN")) /\ Truthy(getenv(env, "QE_URL"))

\* The loop body testing `is not None` instead of truthiness: an empty
\* value is copied too.
LoopBody_NotNone(env, acc, item) ==
    IF getenv(env, item[1]) # None
    THEN [k \in DOMAIN acc \cup {item[2]} |->
             IF k = item[2] THEN getenv(env, item[1]) ELSE acc[k]]
    ELSE acc

\* The loop body storing a placeholder for a variable that is not set.
LoopBody_Default(env, acc, item) ==
    [k \in DOMAIN acc \cup {item[2]} |->
        IF k = item[2]
        THEN (IF Truthy(getenv(env, item[1])) THEN getenv(env, item[1]) ELSE "")
        ELSE acc[k]]

\* environ.py:48-49  one iteration of the loop.
LoopBody(env, acc, item) ==
    IF Truthy(getenv(env, item[1]))
    THEN [k \in DOMAIN acc \cup {item[2]} |->
             IF k = item[2] THEN getenv(env, item[1]) ELSE acc[k]]
    ELSE acc

RECURSIVE BuildCredentials(_, _, _)
RECURSIVE BuildCredentials_Short(_, _, _)
\* The loop stopping one item early (QE_PROJECT is never read).
BuildCredentials_Short(env, acc, i) ==
    IF i >= Len(VARIABLES_MAP)
    THEN acc
    ELSE BuildCredentials_Short(env, LoopBody(env, acc, VARIABLES_MAP[i]), i + 1)

\* environ.py:46-49  the loop over VARIABLES_MAP.items(), from item i on.
BuildCredentials(env, acc, i) ==
    IF i > Len(VARIABLES_MAP)
    THEN acc
    ELSE BuildCredentials(env, LoopBody(env, acc, VARIABLES_MAP[i]), i + 1)

\* The mapping keyed by the record's url instead of its unique_id().
Mapping_ByUrl(c) == [k \in {<<c["url"], None, None>>} |-> c]

\* environ.py:52  OrderedDict({credentials.unique_id(): credentials})
Mapping(c) == [k \in {unique_id(c)} |-> c]

\* A loader that consumes the token: os.environ.pop('QE_TOKEN', None).
EnvironAfterCall_Pop(env) == EnvDel(env, "QE_TOKEN")

\* A loader that fills in a default: os.environ.setdefault('QE_URL', 'b').
EnvironAfterCall_SetDefault(env) ==
    IF "QE_URL" \in DOMAIN env THEN env ELSE EnvSet(env, "QE_URL", "b")

\* environ.py:42-49  the loader reaches os.environ through os.getenv only:
\* the environment after the call is the environment before it.
EnvironAfterCall(env) == env

\* environ.py:33-52  read_credentials_from_environ()
read_credentials_from_environ ==
    /\ nCalls < MaxCalls
    /\ nCalls' = nCalls + 1
    /\ prevResult' = result
    /\ prevEnviron' = lastEnviron
    /\ lastEnviron' = environ
    /\ IF ~HasRequired(environ)
       THEN /\ result' = EmptyDict
            /\ credentials' = EmptyDict
            /\ raised' = None
       ELSE LET kwargs == BuildCredentials(environ, EmptyDict, 1) IN
            /\ credentials' = kwargs
            /\ IF CredentialsOk(kwargs)
               THEN /\ result' = Mapping(Credentials(kwargs))
                    /\ raised' = None
               ELSE /\ result' = EmptyDict
                    /\ raised' = "TypeError"
    /\ environ' = EnvironAfterCall(environ)
    /\ touched' = FALSE
    /\ UNCHANGED nChanges

\* The environment is changed from outside the loader: os.environ[name] = value.
putenv(name, value) ==
    /\ nChanges < MaxChanges
    /\ getenv(environ, name) # value
    /\ environ' = EnvSet(environ, name, value)
    /\ nChanges' = nChanges + 1
    /\ touched' = TRUE
    /\ UNCHANGED <<result, credentials, raised, lastEnviron, prevResult,
                   prevEnviron, nCalls>>

\* The environment is changed from outside the loader: del os.environ[name].
unsetenv(name) ==
    /\ nChanges < MaxChanges
    /\ name \in DOMAIN environ
    /\ environ' = EnvDel(environ, name)
    /\ nChanges' = nChanges + 1
    /\ touched' = TRUE
    /\ UNCHANGED <<result, credentials, raised, lastEnviron, prevResult,
                   prevEnviron, nCalls>>

\* The environments the process can start in.
StartEnvirons ==
    UNION {[S -> StartValues] : S \in SUBSET Recognized}

Init ==
    /\ environ \in StartEnvirons
    /\ result = EmptyDict
    /\ credentials = EmptyDict
    /\ raised = None
    /\ lastEnviron = EmptyDict
    /\ prevResult = EmptyDict
    /\ prevEnviron = EmptyDict
    /\ touched = FALSE
    /\ nCalls = 0
    /\ nChanges = 0

Next ==
    \/ read_credentials_from_environ
    \/ \E name \in EnvNames, value \in Values : putenv(name, value)
    \/ \E name \in EnvNames : unsetenv(name)

Spec == Init /\ [][Next]_vars

\* =================================================================
\* Properties
\* =================================================================
\* A variable is present and non-empty in env.
NonEmptyIn(env, name) == name \in DOMAIN env /\ env[name] # ""

\* The value a variable contributes: its own when present and non-empty,
\* None otherwise.
Contributed(env, name) == IF NonEmptyIn(env, name) THEN env[name] ELSE None

RequiredVars == {"QE_TOKEN", "QE_URL"}
OptionalVars == {"QE_WEBSOCKET_URL", "QE_HUB", "QE_GROUP", "QE_PROJECT"}
RoutingVars == {"QE_HUB", "QE_GROUP", "QE_PROJECT"}

\* The field a recognized variable maps to (the table of section 6).
FieldOf(name) ==
    CASE name = "QE_TOKEN" -> "token"
      [] name = "QE_URL" -> "url"
      [] name = "QE_WEBSOCKET_URL" -> "websocket_url"
      [] name = "QE_HUB" -> "hub"
      [] name = "QE_GROUP" -> "group"
      [] name = "QE_PROJECT" -> "project"

BothRequired(env) == \A n \in RequiredVars : NonEmptyIn(env, n)

\* The hub/group/project triple an environment contributes.
Triple(env) ==
    <<Contributed(env, "QE_HUB"), Contributed(env, "QE_GROUP"),
      Contributed(env, "QE_PROJECT")>>

C2_RequiredOnlyRecord ==
    (/\ nCalls > 0
     /\ BothRequired(lastEnviron)
     /\ DOMAIN lastEnviron \cap OptionalVars = {})
        => /\ Cardinality(DOMAIN result) = 1
           /\ \A k \in DOMAIN result :
                /\ result[k]["token"] = lastEnviron["QE_TOKEN"]
                /\ result[k]["url"] = lastEnviron["QE_URL"]
                /\ \A f \in OptionalFields : result[k][f] = None

\* C2 witness: a call found only QE_TOKEN and QE_URL (and an unrecognized
\* variable) and returned a record.
C2_Witness ==
    /\ nCalls > 0
    /\ BothRequired(lastEnviron)
    /\ DOMAIN lastEnviron \cap OptionalVars = {}
    /\ lastEnviron["QE_TOKEN"] # lastEnviron["QE_URL"]
    /\ result # EmptyDict

\* C3: when a record is built, each recognized variable passes its field,
\* with its exact value, iff it is present and non-empty; nothing else is
\* passed and nothing is substituted for a missing variable.
C3_FieldIffNonEmpty ==
    (nCalls > 0 /\ BothRequired(lastEnviron))
        => /\ DOMAIN credentials \subseteq Fields
           /\ \A n \in Recognized :
                /\ FieldOf(n) \in DOMAIN credentials <=> NonEmptyIn(lastEnviron, n)
                /\ FieldOf(n) \in DOMAIN credentials
                     => credentials[FieldOf(n)] = lastEnviron[n]
           /\ \A k \in DOMAIN result : \A n \in Recognized :
                result[k][FieldOf(n)] = Contributed(lastEnviron, n)

\* C3 witness: a record was built from an environment with an empty QE_HUB,
\* a non-empty QE_GROUP and no QE_PROJECT.
C3_Witness ==
    /\ nCalls > 0
    /\ BothRequired(lastEnviron)
    /\ "QE_HUB" \in DOMAIN lastEnviron
    /\ lastEnviron["QE_HUB"] = ""
    /\ NonEmptyIn(lastEnviron, "QE_GROUP")
    /\ "QE_PROJECT" \notin DOMAIN lastEnviron
    /\ "group" \in DOMAIN credentials
    /\ result # EmptyDict

\* The premise of C4: the earlier call found QE_TOKEN and QE_URL and no
\* optional variable, and the latest call found the same environment with
\* QE_HUB, QE_GROUP and QE_PROJECT set to non-empty values.
C4_Case ==
    /\ nCalls >= 2
    /\ BothRequired(prevEnviron)
    /\ DOMAIN prevEnviron \cap OptionalVars = {}
    /\ \A n \in RoutingVars : NonEmptyIn(lastEnviron, n)
    /\ \A n \in Recognized \ RoutingVars :
          getenv(lastEnviron, n) = getenv(prevEnviron, n)

\* C4: adding QE_HUB, QE_GROUP and QE_PROJECT changes the key of the
\* mapping, populates hub, group and project, and keeps token and url.
C4_AddingRoutingChangesKey ==
    C4_Case
        => /\ Cardinality(DOMAIN result) = 1
           /\ Cardinality(DOMAIN prevResult) = 1
           /\ DOMAIN result \cap DOMAIN prevResult = {}
           /\ \A k \in DOMAIN result : \A j \in DOMAIN prevResult :
                /\ result[k]["hub"] = lastEnviron["QE_HUB"]
                /\ result[k]["group"] = lastEnviron["QE_GROUP"]
                /\ result[k]["project"] = lastEnviron["QE_PROJECT"]
                /\ result[k]["token"] = prevResult[j]["token"]
                /\ result[k]["url"] = prevResult[j]["url"]

\* C4 witness: the two calls of the case happened and both returned a record.
C4_Witness ==
    /\ C4_Case
    /\ result # EmptyDict
    /\ prevResult # EmptyDict

\* C5: the key of a returned entry is the unique identifier of its record,
\* which is the hub/group/project triple (the default identifier when the
\* three are absent); two calls that found the same triple return the same
\* key, whatever the token, url and websocket url are.
C5_KeyIsTriple ==
    /\ (nCalls > 0 /\ result # EmptyDict)
          => \A k \in DOMAIN result :
                /\ k = unique_id(result[k])
                /\ k = Triple(lastEnviron)
    /\ (/\ nCalls >= 2
        /\ result # EmptyDict
        /\ prevResult # EmptyDict
        /\ Triple(lastEnviron) = Triple(prevEnviron))
          => DOMAIN result = DOMAIN prevResult

\* C5 witness: two calls found the same hub but different tokens, and both
\* returned a record.
C5_Witness ==
    /\ nCalls >= 2
    /\ result # EmptyDict
    /\ prevResult # EmptyDict
    /\ NonEmptyIn(lastEnviron, "QE_HUB")
    /\ Triple(lastEnviron) = Triple(prevEnviron)
    /\ lastEnviron["QE_TOKEN"] # prevEnviron["QE_TOKEN"]

\* C6 (as stated): every invocation returns a mapping with exactly one entry.
C6_ExactlyOneEntry ==
    nCalls > 0 => Cardinality(DOMAIN result) = 1

\* C6 (amended): every invocation returns at most one entry: exactly one
\* when QE_TOKEN and QE_URL are both non-empty, none otherwise.
C6_AtMostOneEntry ==
    nCalls > 0
        => /\ Cardinality(DOMAIN result) <= 1
           /\ Cardinality(DOMAIN result) = 1 <=> BothRequired(lastEnviron)

\* C6 witness: one call returned a record and the call before it returned
\* the empty mapping.
C6_Witness ==
    /\ nCalls >= 2
    /\ Cardinality(DOMAIN result) = 1
    /\ BothRequired(lastEnviron)
    /\ prevResult = EmptyDict

\* C7: an invocation that follows another with no change of the environment
\* in between returns a mapping equal to the earlier one.
C7_Idempotent ==
    [][(nCalls >= 1 /\ nCalls' = nCalls + 1 /\ ~touched)
          => (result' = result /\ raised' = raised)]_vars

\* C7 witness: two calls in a row returned the same record.
C7_Witness ==
    /\ nCalls >= 2
    /\ ~touched
    /\ lastEnviron = prevEnviron
    /\ result # EmptyDict
    /\ result = prevResult

\* C8: two environments that agree on the six recognized variables give
\* equal mappings, and every field of the record is the contribution of its
\* own recognized variable.
C8_UnrecognizedIgnored ==
    /\ (/\ nCalls >= 2
        /\ \A n \in Recognized : getenv(lastEnviron, n) = getenv(prevEnviron, n))
          => result = prevResult
    /\ nCalls > 0
          => \A k \in DOMAIN result : \A n \in Recognized :
                result[k][FieldOf(n)] = Contributed(lastEnviron, n)

\* C8 witness: two calls found the same recognized variables and a different
\* QE_FOO, and returned the same record.
C8_Witness ==
    /\ nCalls >= 2
    /\ \A n \in Recognized : getenv(lastEnviron, n) = getenv(prevEnviron, n)
    /\ getenv(lastEnviron, "QE_FOO") # getenv(prevEnviron, "QE_FOO")
    /\ NonEmptyIn(lastEnviron, "QE_FOO")
    /\ result # EmptyDict
    /\ result = prevResult

\* C9: an invocation leaves every environment variable as it was.
C9_EnvironUnchanged ==
    [][nCalls' # nCalls => environ' = environ]_vars

\* C9 witness: the loader has returned on both paths (empty mapping, then a
\* record) and the environment is the one the latest call found.
C9_Witness ==
    /\ nCalls >= 2
    /\ prevResult = EmptyDict
    /\ result # EmptyDict
    /\ ~touched
    /\ environ = lastEnviron
    /\ "QE_FOO" \in DOMAIN environ

\* C10 (as stated): whenever QE_TOKEN is non-empty the loader returns a
\* non-empty mapping, also when QE_URL is unset or empty.
C10_TokenSuffices ==
    (nCalls > 0 /\ NonEmptyIn(lastEnviron, "QE_TOKEN")) => result # EmptyDict


====
